---- MODULE Spec2Model ----
(***************************************************************************)
(* The LLM Council orchestration pipeline (backend/council.py):            *)
(* LLMCouncil.process_query drives three stages over the council members   *)
(* and the chairman.  A run is one invocation of process_query; its steps  *)
(* are the code between two suspension points (await) of the coroutine.    *)
(***************************************************************************)
EXTENDS Integers, Sequences, FiniteSets, TLC

(***************************************************************************)
(* Bounds of the model.                                                    *)
(***************************************************************************)
\* number of distinct user queries a caller may submit
MaxQueries == 2

\* the invocations of process_query the model follows
Runs == {1}

\* two invocations on the one council main.py shares between requests
TwoRuns == {1, 2}
Queries == {<<"query", k>> : k \in 1..MaxQueries}

(***************************************************************************)
(* backend/config.py                                                       *)
(***************************************************************************)
COUNCIL_MODELS == <<"llama3.2", "gemma3:1b", "qwen3:1.7b">>
CHAIRMAN_MODEL == "qwen3:4b"

Members == 1..Len(COUNCIL_MODELS)

(***************************************************************************)
(* Values.  A text is what a backend produced: the model that wrote it and *)
(* the payload it answered.  Prompts all have the same shape so that any   *)
(* two texts can be compared.                                              *)
(***************************************************************************)
NoQuery == <<"query", 0>>

EmptyPrompt ==
    [user_query |-> NoQuery, count |-> 0, responses_text |-> <<>>,
     ids_list |-> <<>>, reviews_text |-> <<>>]

\* the empty string "": the default of data.get("response", "") and the
\* initial value of result["stage3_final"]
EmptyText == [model |-> "", prompt |-> EmptyPrompt, system |-> ""]

\* None, for CouncilMember.response before the first opinion
NoneText == [model |-> "None", prompt |-> EmptyPrompt, system |-> ""]

NoException == [kind |-> "none", model |-> ""]

\* the three httpx failures OllamaClient.generate wraps into an Exception
ApiErrors == {"timeout", "status", "transport"}

OllamaException(kind, model) == [kind |-> kind, model |-> model]

\* what progress_callback (websocket.send_json) raises when it fails
CallbackException == [kind |-> "callback", model |-> ""]

\* the text the model writes for a payload
ModelText(model, prompt, system) ==
    [model |-> model, prompt |-> prompt, system |-> system]

\* OllamaClient.generate: the values a successful call can return
GenerateReturns(model, prompt, system) ==
    {ModelText(model, prompt, system), EmptyText}

\* OllamaClient.generate: the exceptions a failed call can raise
GenerateRaises(model) == {OllamaException(k, model) : k \in ApiErrors}

(***************************************************************************)
(* str(id) and the f-string conversion of an integer: decimal digits.      *)
(***************************************************************************)
Digits == <<"0", "1", "2", "3", "4", "5", "6", "7", "8", "9">>

RECURSIVE Str(_)
Str(n) ==
    IF n < 10 THEN Digits[n + 1]
    ELSE Str(n \div 10) \o Digits[(n % 10) + 1]

(***************************************************************************)
(* Prompts.                                                                *)
(***************************************************************************)
OpinionSystem == "opinion"
ReviewSystem == "review"
ChairmanSystem == "chairman"

\* CouncilMember.generate_opinion: the prompt is the user query itself
OpinionPrompt(user_query) == [EmptyPrompt EXCEPT !.user_query = user_query]

\* CouncilMember.review_responses: responses_text, response_ids, prompt
ReviewPrompt(user_query, responses) ==
    [EmptyPrompt EXCEPT
        !.user_query = user_query,
        !.count = Len(responses),
        !.responses_text =
            [j \in 1..Len(responses) |->
                [id |-> Str(responses[j][1]), resp |-> responses[j][2]]],
        !.ids_list = [j \in 1..Len(responses) |-> Str(responses[j][1])]]

\* Chairman.synthesize_final_answer: responses_text, reviews_text, prompt
ChairmanPrompt(user_query, council_responses, reviews) ==
    [EmptyPrompt EXCEPT
        !.user_query = user_query,
        !.responses_text =
            [j \in 1..Len(council_responses) |->
                [model |-> council_responses[j].model,
                 response |-> council_responses[j].response]],
        !.reviews_text =
            [j \in 1..Len(reviews) |->
                [model |-> reviews[j].model, review |-> reviews[j].review]]]

(***************************************************************************)
(* List helpers of process_query.                                          *)
(***************************************************************************)
Min(a, b) == IF a < b THEN a ELSE b

\* enumerate(responses): identifiers counted from 0
EnumerateFromZero(responses) ==
    [j \in 1..Len(responses) |-> <<j - 1, responses[j]>>]

\* enumerate(responses, 1)
Enumerate(responses) ==
    [j \in 1..Len(responses) |-> <<j, responses[j]>>]

\* the orders random.shuffle can leave a list of n items in
ShuffleDraws(n) ==
    {p \in [1..n -> 1..n] : \A a, b \in 1..n : p[a] = p[b] => a = b}

\* random.shuffle(anonymous_responses) under the draw p
Shuffle(list, p) == [j \in 1..Len(list) |-> list[p[j]]]

\* zip(self.members, responses) into result["stage1_responses"]
ZipResponses(responses) ==
    [j \in 1..Min(Len(COUNCIL_MODELS), Len(responses)) |->
        [model |-> COUNCIL_MODELS[j], response |-> responses[j]]]

(***************************************************************************)
(* State.  run[r] holds the frame of invocation r of process_query: the    *)
(* locals of the coroutine, the review tasks it gathered, the progress     *)
(* events its callback received, and a record of the backend calls it      *)
(* made.  members[m] holds the attributes of CouncilMember m, which the    *)
(* orchestrator shares between runs.                                       *)
(* env is the environment of the orchestrator: which backends the clients  *)
(* talk to, how callers invoke process_query, and when.                   *)
(* health is the frame of LLMCouncil.health_check.                         *)
(***************************************************************************)
VARIABLES run, members, env, health

vars == <<run, members, env, health>>

\* the live service, called through both endpoints of main.py (POST /query
\* without a progress callback, the websocket with one), at any time
ServiceEnv ==
    [backend |-> "service", callbacks |-> BOOLEAN, errors |-> ApiErrors,
     draws |-> [r \in TwoRuns |-> ShuffleDraws(Len(COUNCIL_MODELS))],
     overlap |-> TRUE,
     queries |-> [r \in TwoRuns |-> Queries]]

\* the text a deterministic test double of a member's backend returns,
\* whatever the prompt
FixedText(model) == [model |-> model, prompt |-> EmptyPrompt, system |-> "fixed"]

\* OllamaClient.generate in the environment: the values a call can return
BackendReturns(model, prompt, system) ==
    CASE env.backend = "service" -> GenerateReturns(model, prompt, system)
      [] env.backend = "prompt"  -> {ModelText(model, prompt, system)}
      [] env.backend = "fixed"   -> {FixedText(model)}

\* OllamaClient.generate in the environment: the exceptions a call can raise
BackendRaises(model) == GenerateRaises(model) \cap
    {OllamaException(k, model) : k \in env.errors}

NoCall == [state |-> "none", calls |-> 0, value |-> NoneText, exc |-> NoException]

NoChairmanCall ==
    [state |-> "none", calls |-> 0, council_responses |-> <<>>, reviews |-> <<>>,
     prompt |-> EmptyPrompt, value |-> NoneText, exc |-> NoException]

NoTask ==
    [state |-> "none", responses |-> <<>>, prompt |-> EmptyPrompt, calls |-> 0,
     review |-> NoneText, value |-> [model |-> "", review |-> NoneText],
     exc |-> NoException]

NoResult ==
    [query |-> NoQuery, stage1_responses |-> <<>>, stage2_reviews |-> <<>>,
     stage3_final |-> EmptyText]

\* a frame before process_query is called
IdleRun ==
    [pc |-> "idle",
     user_query |-> NoQuery,
     progress_callback |-> FALSE,
     result |-> NoResult,
     i |-> 0,
     responses |-> <<>>,
     e |-> NoException,
     anonymous_responses |-> <<>>,
     review_tasks |-> [m \in Members |-> NoTask],
     gather_exception |-> NoException,
     reviews |-> <<>>,
     generate |-> [m \in Members |-> NoCall],
     chairman |-> NoChairmanCall,
     events |-> <<>>,
     finished |-> <<>>,
     cache_at_start |-> [m \in Members |-> [response |-> NoneText, rankings |-> <<>>]],
     quiet_start |-> TRUE,
     outcome |-> "none",
     returned |-> NoResult,
     raised |-> NoException]

\* the methods class OllamaClient defines
OllamaClientMethods == {"__init__", "generate", "chat", "close"}

\* what member.client.<method> raises when the class does not define it
AttributeError(method) == [kind |-> "AttributeError", model |-> method]

\* the keys of the mapping health_check builds, in the order it builds them
HealthKeys ==
    [i \in 1..Len(COUNCIL_MODELS) + 1 |->
        IF i <= Len(COUNCIL_MODELS) THEN <<"council", COUNCIL_MODELS[i]>>
                                    ELSE <<"chairman", CHAIRMAN_MODEL>>]

\* the frame of health_check before it is called: checks is the mapping as
\* the sequence of the values stored so far, under HealthKeys
IdleHealth ==
    [pc |-> "idle", checks |-> <<>>, probes |-> 0,
     outcome |-> "none", raised |-> NoException]

\* health_check up to its first suspension: checks = {}, then the first
\* member.client.health_check is looked up, and called if it exists
BeginHealthCheck ==
    IF "health_check" \in OllamaClientMethods
        THEN [IdleHealth EXCEPT !.pc = "probe", !.probes = 1]
        ELSE [IdleHealth EXCEPT !.pc = "error", !.outcome = "raised",
                                !.raised = AttributeError("health_check")]

\* CouncilMember.__init__
NewMember == [response |-> NoneText, rankings |-> <<>>]

Init ==
    /\ run = [r \in Runs |-> IdleRun]
    /\ members = [m \in Members |-> NewMember]
    /\ env = ServiceEnv
    /\ health = IdleHealth

(***************************************************************************)
(* Progress events: progress_callback(stage, message).                     *)
(***************************************************************************)
ProgressEvent(stage, member, i, total, exc) ==
    [stage |-> stage, member |-> member, i |-> i, total |-> total, error |-> exc]

StageEvent(stage) == ProgressEvent(stage, "", 0, 0, NoException)

\* for i, member in enumerate(self.members) without the start of 1
MemberEventFromZero(i) ==
    ProgressEvent("stage1", COUNCIL_MODELS[i], i - 1, Len(COUNCIL_MODELS), NoException)

MemberEvent(i) ==
    ProgressEvent("stage1", COUNCIL_MODELS[i], i, Len(COUNCIL_MODELS), NoException)

ErrorEvent(i, exc) == ProgressEvent("error", COUNCIL_MODELS[i], 0, 0, exc)

\* await progress_callback(...): the callback receives the event and the
\* coroutine is suspended in it at the label pc
CallProgress(s, ev, pc) ==
    [s EXCEPT !.events = Append(@, ev), !.pc = pc]

(***************************************************************************)
(* process_query, from the end to the beginning: each operator is the      *)
(* code a run executes from one point up to its next suspension.           *)
(***************************************************************************)

\* except Exception: return result
ReturnOnError(s, exc) ==
    [s EXCEPT !.pc = "done", !.outcome = "returned", !.returned = s.result]

\* an exception leaves process_query
Raise(s, exc) ==
    [s EXCEPT !.pc = "error", !.outcome = "raised", !.raised = exc]

\* return result
Return(s) ==
    [s EXCEPT !.pc = "done", !.outcome = "returned", !.returned = s.result]

\* final_answer is not stored
DropFinal(result, final_answer) == result

\* result["stage3_final"] = final_answer
StoreFinal(result, final_answer) ==
    [result EXCEPT !.stage3_final = final_answer]

\* the chairman is handed the anonymized pairs, labelled by identifier
CallChairmanAnonymized(s) ==
    LET labelled == [j \in 1..Len(s.anonymous_responses) |->
                        [model |-> Str(s.anonymous_responses[j][1]),
                         response |-> s.anonymous_responses[j][2]]]
    IN  [s EXCEPT
            !.pc = "synthesize",
            !.chairman =
                [@ EXCEPT
                    !.state = "outstanding",
                    !.calls = @ + 1,
                    !.council_responses = labelled,
                    !.reviews = s.result.stage2_reviews,
                    !.prompt = ChairmanPrompt(s.user_query, labelled,
                                              s.result.stage2_reviews)]]

\* await self.chairman.synthesize_final_answer(user_query,
\*     result["stage1_responses"], result["stage2_reviews"])
CallChairman(s) ==
    [s EXCEPT
        !.pc = "synthesize",
        !.chairman =
            [@ EXCEPT
                !.state = "outstanding",
                !.calls = @ + 1,
                !.council_responses = s.result.stage1_responses,
                !.reviews = s.result.stage2_reviews,
                !.prompt = ChairmanPrompt(s.user_query, s.result.stage1_responses,
                                          s.result.stage2_reviews)]]

\* Stage 3, from its progress event on
Stage3(s) ==
    IF s.progress_callback
    THEN CallProgress(s, StageEvent("stage3"), "cb_stage3")
    ELSE CallChairman(s)

\* a join that is done as soon as one task has finished
GatherAnyDone(s) ==
    \/ s.gather_exception # NoException
    \/ \E m \in Members : s.review_tasks[m].state = "returned"

\* a join that waits until every task has finished
GatherAllFinished(s) ==
    \A m \in Members : s.review_tasks[m].state \in {"returned", "raised"}

\* a join that waits until every task has returned a value
GatherAllReturned(s) ==
    \A m \in Members : s.review_tasks[m].state = "returned"

\* asyncio.gather(*review_tasks) is done when a task has raised or when
\* every task has returned
GatherDone(s) ==
    \/ s.gather_exception # NoException
    \/ \A m \in Members : s.review_tasks[m].state = "returned"

\* the results of the tasks from the last created to the first
GatherResultLastFirst(tasks) ==
    [k \in 1..Len(tasks) |-> tasks[Len(tasks) + 1 - k].value]

\* the list asyncio.gather returns: the tasks' values in the tasks' order
GatherResult(tasks) ==
    [m \in Members |-> tasks[m].value]

\* asyncio.gather(..., return_exceptions=True): a failed task does not
\* fail the join
AfterGatherPartial(s) ==
    LET reviews == GatherResult(s.review_tasks)
    IN  Stage3([s EXCEPT !.reviews = reviews,
                         !.result.stage2_reviews = reviews])

\* reviews = await asyncio.gather(...); result["stage2_reviews"] = reviews
AfterGather(s) ==
    IF s.gather_exception # NoException
    THEN Raise(s, s.gather_exception)
    ELSE LET reviews == GatherResult(s.review_tasks)
         IN  Stage3([s EXCEPT !.reviews = reviews,
                              !.result.stage2_reviews = reviews])

\* anonymous_responses = list(enumerate(responses, 1)); random.shuffle(...)
Anonymize(responses, p) == Shuffle(Enumerate(responses), p)

\* review_tasks = [member.review_responses(user_query, anonymous_responses)
\*                 for member in self.members]; asyncio.gather(*review_tasks)
ReviewTasks(anonymous_responses) ==
    [m \in Members |-> [NoTask EXCEPT !.state = "created",
                                      !.responses = anonymous_responses]]

FanOut(s, p) ==
    LET anonymous_responses == Anonymize(s.responses, p)
    IN  [s EXCEPT !.pc = "gather",
                  !.anonymous_responses = anonymous_responses,
                  !.review_tasks = ReviewTasks(anonymous_responses)]

\* Stage 2, from its progress event on
Stage2(s, p) ==
    IF s.progress_callback
    THEN CallProgress(s, StageEvent("stage2"), "cb_stage2")
    ELSE FanOut(s, p)

\* the loop over zip(self.members, responses), then Stage 2
AfterLoop(s, p) ==
    Stage2([s EXCEPT !.result.stage1_responses = ZipResponses(s.responses)], p)

\* response = await member.generate_opinion(user_query)
CallGenerate(s) ==
    [s EXCEPT !.pc = "generate",
              !.generate[s.i] = [@ EXCEPT !.state = "outstanding",
                                          !.calls = @ + 1]]

\* for i, member in enumerate(self.members, 1): the iteration for member i
ForMember(s, i, p) ==
    IF i > Len(COUNCIL_MODELS)
    THEN AfterLoop(s, p)
    ELSE IF s.progress_callback
         THEN CallProgress([s EXCEPT !.i = i], MemberEvent(i), "cb_member")
         ELSE CallGenerate([s EXCEPT !.i = i])

\* a loop that steps over a member
SkipMember(i) == i + 2

\* the member the loop takes after member i
NextMember(i) == i + 1

\* responses.insert(0, response)
PrependResponse(responses, response) == <<response>> \o responses

\* responses.append(response)
AppendResponse(responses, response) == Append(responses, response)

\* except Exception as e: ... raise
ExceptGenerate(s, exc) ==
    IF s.progress_callback
    THEN CallProgress([s EXCEPT !.e = exc], ErrorEvent(s.i, exc), "cb_error")
    ELSE Raise(s, exc)

\* the beginning of process_query
Begin(user_query, progress_callback, p) ==
    LET s == [IdleRun EXCEPT
                !.user_query = user_query,
                !.progress_callback = progress_callback,
                !.result = [NoResult EXCEPT !.query = user_query]]
    IN  IF progress_callback
        THEN CallProgress(s, StageEvent("stage1"), "cb_stage1")
        ELSE ForMember(s, 1, p)

\* the code after an await progress_callback(...) that returned
AfterProgress(s, p) ==
    CASE s.pc = "cb_stage1" -> ForMember(s, 1, p)
      [] s.pc = "cb_member" -> CallGenerate(s)
      [] s.pc = "cb_error"  -> Raise(s, s.e)
      [] s.pc = "cb_stage2" -> FanOut(s, p)
      [] s.pc = "cb_stage3" -> CallChairman(s)

InProgressCallback(s) ==
    s.pc \in {"cb_stage1", "cb_member", "cb_error", "cb_stage2", "cb_stage3"}

\* process_query has been called and has neither returned nor raised
Running(s) == s.pc \notin {"idle", "done", "error"}

\* a review task of the run has not finished
ReviewsOutstanding(s) ==
    \E m \in Members : s.review_tasks[m].state \in {"created", "outstanding"}

\* a generate_opinion that answers from self.response when it holds one
CachedOpinion(cached, response) ==
    IF cached # NoneText THEN cached ELSE response

\* self.response = await self.client.generate(...); return self.response
GenerateOpinion(cached, response) == response

(***************************************************************************)
(* Actions.                                                                *)
(***************************************************************************)

\* a caller invokes council.process_query(query[, progress_callback])
ProcessQuery(r) ==
    /\ run[r].pc = "idle"
    /\ \A o \in DOMAIN run : o < r => run[o].pc # "idle"
    /\ env.overlap \/ \A o \in DOMAIN run : Running(run[o]) => o = r
    /\ \E q \in env.queries[r], cb \in env.callbacks, p \in env.draws[r] :
          run' = [run EXCEPT ![r] =
                [Begin(q, cb, p) EXCEPT
                    !.cache_at_start = members,
                    !.quiet_start = \A o \in DOMAIN run : ~ReviewsOutstanding(run[o])]]
    /\ UNCHANGED <<members, env, health>>

\* progress_callback returns
ProgressReturn(r) ==
    /\ InProgressCallback(run[r])
    /\ \E p \in env.draws[r] :
          run' = [run EXCEPT ![r] = AfterProgress(run[r], p)]
    /\ UNCHANGED <<members, env, health>>

\* progress_callback raises
ProgressRaise(r) ==
    /\ InProgressCallback(run[r])
    /\ run' = [run EXCEPT ![r] = Raise(run[r], CallbackException)]
    /\ UNCHANGED <<members, env, health>>

\* the backend answers generate_opinion of member run[r].i
GenerateReturn(r) ==
    /\ run[r].pc = "generate"
    /\ LET s == run[r]
           m == s.i
       IN  \E response \in BackendReturns(COUNCIL_MODELS[m],
                                          OpinionPrompt(s.user_query), OpinionSystem),
              p \in env.draws[r] :
              /\ members' = [members EXCEPT ![m].response = response]
              /\ UNCHANGED <<env, health>>
              /\ run' = [run EXCEPT ![r] =
                    ForMember(
                        [s EXCEPT
                            !.generate[m] = [@ EXCEPT !.state = "returned",
                                                      !.value = response],
                            !.responses = AppendResponse(
                                @, GenerateOpinion(members[m].response, response))],
                        NextMember(m), p)]

\* the backend call of generate_opinion of member run[r].i fails
GenerateRaise(r) ==
    /\ run[r].pc = "generate"
    /\ LET s == run[r]
           m == s.i
       IN  \E exc \in BackendRaises(COUNCIL_MODELS[m]) :
              run' = [run EXCEPT ![r] =
                    ExceptGenerate(
                        [s EXCEPT !.generate[m] = [@ EXCEPT !.state = "raised",
                                                            !.exc = exc]],
                        exc)]
    /\ UNCHANGED <<members, env, health>>

\* return {"model": self.model_name, "review": review}
ReviewValue(model, review) == [model |-> model, review |-> review]

\* the task of member m's review_responses runs up to its backend call; the
\* event loop starts the gathered tasks in the order they were created
ReviewStart(r, m) ==
    /\ run[r].review_tasks[m].state = "created"
    /\ \A k \in Members : k < m => run[r].review_tasks[k].state # "created"
    /\ run' = [run EXCEPT ![r].review_tasks[m] =
            [@ EXCEPT !.state = "outstanding",
                      !.calls = @ + 1,
                      !.prompt = ReviewPrompt(run[r].user_query,
                                             run[r].review_tasks[m].responses)]]
    /\ UNCHANGED <<members, env, health>>

\* the backend answers member m's review call
ReviewReturn(r, m) ==
    /\ run[r].review_tasks[m].state = "outstanding"
    /\ \E review \in BackendReturns(COUNCIL_MODELS[m],
                                    run[r].review_tasks[m].prompt, ReviewSystem) :
          /\ members' = [members EXCEPT ![m].rankings = Append(@, review)]
          /\ run' = [run EXCEPT
                ![r].review_tasks[m] =
                    [@ EXCEPT !.state = "returned",
                              !.review = review,
                              !.value = ReviewValue(COUNCIL_MODELS[m], review)],
                ![r].finished = Append(@, <<m, "returned">>)]
    /\ UNCHANGED <<env, health>>

\* member m's review call fails; gather keeps the first exception
ReviewRaise(r, m) ==
    /\ run[r].review_tasks[m].state = "outstanding"
    /\ \E exc \in BackendRaises(COUNCIL_MODELS[m]) :
          run' = [run EXCEPT
                ![r].review_tasks[m] = [@ EXCEPT !.state = "raised", !.exc = exc],
                ![r].gather_exception = IF @ = NoException THEN exc ELSE @,
                ![r].finished = Append(@, <<m, "raised">>)]
    /\ UNCHANGED <<members, env, health>>

\* process_query resumes from await asyncio.gather(...)
GatherWake(r) ==
    /\ run[r].pc = "gather"
    /\ \A m \in Members : run[r].review_tasks[m].state # "created"
    /\ GatherDone(run[r])
    /\ run' = [run EXCEPT ![r] = AfterGather(run[r])]
    /\ UNCHANGED <<members, env, health>>

\* the chairman's backend answers
ChairmanReturn(r) ==
    /\ run[r].pc = "synthesize"
    /\ LET s == run[r]
       IN  \E final_answer \in BackendReturns(CHAIRMAN_MODEL, s.chairman.prompt,
                                              ChairmanSystem) :
              run' = [run EXCEPT ![r] =
                    Return([s EXCEPT
                        !.chairman = [@ EXCEPT !.state = "returned",
                                               !.value = final_answer],
                        !.result = StoreFinal(@, final_answer)])]
    /\ UNCHANGED <<members, env, health>>

\* the chairman's backend call fails
ChairmanRaise(r) ==
    /\ run[r].pc = "synthesize"
    /\ LET s == run[r]
       IN  \E exc \in BackendRaises(CHAIRMAN_MODEL) :
              run' = [run EXCEPT ![r] =
                    Raise([s EXCEPT !.chairman = [@ EXCEPT !.state = "raised",
                                                           !.exc = exc]],
                          exc)]
    /\ UNCHANGED <<members, env, health>>

Next ==
    \E r \in Runs :
        \/ ProcessQuery(r)
        \/ ProgressReturn(r)
        \/ ProgressRaise(r)
        \/ GenerateReturn(r)
        \/ GenerateRaise(r)
        \/ \E m \in Members : ReviewStart(r, m)
        \/ \E m \in Members : ReviewReturn(r, m)
        \/ \E m \in Members : ReviewRaise(r, m)
        \/ GatherWake(r)
        \/ ChairmanReturn(r)
        \/ ChairmanRaise(r)

Spec == Init /\ [][Next]_vars

\* GET /health: main.py awaits council.health_check()
HealthCheck ==
    /\ health.pc \in {"idle", "done", "error"}
    /\ health' = BeginHealthCheck
    /\ UNCHANGED <<run, members, env>>

\* the service answering queries and health requests
NextHealth == Next \/ HealthCheck

\* the service with backends whose answer is the model's text for the prompt
\* and whose only failure is the timeout
LiveEnv ==
    [backend |-> "prompt", callbacks |-> BOOLEAN, errors |-> {"timeout"},
     draws |-> [r \in TwoRuns |-> ShuffleDraws(Len(COUNCIL_MODELS))],
     overlap |-> TRUE,
     queries |-> [r \in TwoRuns |-> Queries]]

InitLive ==
    /\ run = [r \in Runs |-> IdleRun]
    /\ members = [m \in Members |-> NewMember]
    /\ env = LiveEnv
    /\ health = IdleHealth

\* every awaited call ends: the callback returns or raises, httpx answers or
\* fails within the timeout of the client, and the event loop runs every task
\* it holds and resumes a coroutine whose awaitable is done
Fairness ==
    \A r \in Runs :
        /\ WF_vars(ProgressReturn(r) \/ ProgressRaise(r))
        /\ WF_vars(GenerateReturn(r) \/ GenerateRaise(r))
        /\ \A m \in Members :
              /\ WF_vars(ReviewStart(r, m))
              /\ WF_vars(ReviewReturn(r, m) \/ ReviewRaise(r, m))
        /\ WF_vars(GatherWake(r))
        /\ WF_vars(ChairmanReturn(r) \/ ChairmanRaise(r))

SpecLive == InitLive /\ [][Next]_vars /\ Fairness

SpecHealth == InitLive /\ [][NextHealth]_vars

\* two of the orders random.shuffle can leave the opinions in: the one they
\* had and its reverse
TwoDraws ==
    [r \in TwoRuns |->
        {p \in ShuffleDraws(Len(COUNCIL_MODELS)) :
            \/ \A j \in Members : p[j] = j
            \/ \A j \in Members : p[j] = Len(COUNCIL_MODELS) + 1 - j}]

\* the shuffle of the first request leaves the opinions in the order they
\* had, the shuffle of the second reverses them
OneDrawEach ==
    [r \in TwoRuns |->
        {p \in ShuffleDraws(Len(COUNCIL_MODELS)) :
            \A j \in Members :
                p[j] = IF r = 1 THEN j ELSE Len(COUNCIL_MODELS) + 1 - j}]

\* the first request carries the first query, the second any query
TwoQueries == [r \in TwoRuns |-> IF r = 1 THEN {<<"query", 1>>} ELSE Queries]

\* the first request carries the first query, the second another one
OtherQueries ==
    [r \in TwoRuns |-> IF r = 1 THEN {<<"query", 1>>}
                                ELSE Queries \ {<<"query", 1>>}]

\* POST /query twice, one request after the other has ended, on backends
\* that answer or time out
RepeatEnv ==
    [backend |-> "prompt", callbacks |-> {FALSE}, errors |-> {"timeout"},
     draws |-> TwoDraws, overlap |-> FALSE, queries |-> TwoQueries]

\* POST /query twice at once, on backends that answer
ConcurrentEnv ==
    [backend |-> "prompt", callbacks |-> {FALSE}, errors |-> {},
     draws |-> OneDrawEach, overlap |-> TRUE, queries |-> OtherQueries]

\* POST /query twice, one request after the other has ended, on backends
\* whose output is fixed per member
FixedEnv ==
    [backend |-> "fixed", callbacks |-> {FALSE}, errors |-> {},
     draws |-> TwoDraws, overlap |-> FALSE, queries |-> TwoQueries]

InitTwo ==
    /\ run = [r \in TwoRuns |-> IdleRun]
    /\ members = [m \in Members |-> NewMember]
    /\ env = RepeatEnv
    /\ health = IdleHealth

InitConcurrent ==
    /\ run = [r \in TwoRuns |-> IdleRun]
    /\ members = [m \in Members |-> NewMember]
    /\ env = ConcurrentEnv
    /\ health = IdleHealth

InitFixed ==
    /\ run = [r \in TwoRuns |-> IdleRun]
    /\ members = [m \in Members |-> NewMember]
    /\ env = FixedEnv
    /\ health = IdleHealth

\* the steps of a request that carries no progress callback
NextTwo ==
    \E r \in TwoRuns :
        \/ ProcessQuery(r)
        \/ GenerateReturn(r)
        \/ GenerateRaise(r)
        \/ \E m \in Members : ReviewStart(r, m)
        \/ \E m \in Members : ReviewReturn(r, m)
        \/ \E m \in Members : ReviewRaise(r, m)
        \/ GatherWake(r)
        \/ ChairmanReturn(r)
        \/ ChairmanRaise(r)

\* the steps of a request that carries no progress callback, on backends
\* that answer
NextAnswered ==
    \E r \in TwoRuns :
        \/ ProcessQuery(r)
        \/ GenerateReturn(r)
        \/ \E m \in Members : ReviewStart(r, m)
        \/ \E m \in Members : ReviewReturn(r, m)
        \/ GatherWake(r)
        \/ ChairmanReturn(r)

SpecTwo == InitTwo /\ [][NextTwo]_vars

SpecConcurrent == InitConcurrent /\ [][NextAnswered]_vars

SpecFixed == InitFixed /\ [][NextAnswered]_vars

(***************************************************************************)
(* The pipeline's state machine (INIT, STAGE1, STAGE2, STAGE3, DONE,       *)
(* ERROR).  The progress callback is invoked at the stage boundaries: a    *)
(* run enters a stage when the stage's first backend work is issued, and   *)
(* while it waits in the callback that announces a stage it is still in    *)
(* the stage before.                                                       *)
(***************************************************************************)
Stage(s) ==
    CASE s.pc \in {"idle", "cb_stage1"}                  -> "INIT"
      [] s.pc \in {"cb_member", "generate", "cb_error",
                   "cb_stage2"}                          -> "STAGE1"
      [] s.pc \in {"gather", "cb_stage3"}                -> "STAGE2"
      [] s.pc = "synthesize"                             -> "STAGE3"
      [] s.pc = "done"                                   -> "DONE"
      [] s.pc = "error"                                  -> "ERROR"

StageRank(st) ==
    CASE st = "INIT" -> 0 [] st = "STAGE1" -> 1 [] st = "STAGE2" -> 2
      [] st = "STAGE3" -> 3 [] st = "DONE" -> 4 [] st = "ERROR" -> 5

N == Len(COUNCIL_MODELS)

\* the run is past the Stage 1 loop (line 203 on) and has not failed since
PastStage1(s) ==
    s.pc \in {"cb_stage2", "gather", "cb_stage3", "synthesize", "done"}

\* the run is past the join of Stage 2 (line 222 on) and has not failed since
PastStage2(s) == s.pc \in {"cb_stage3", "synthesize", "done"}

\* how many times x occurs in the sequence seq
Count(seq, x) == Cardinality({j \in 1..Len(seq) : seq[j] = x})

(***************************************************************************)
(* Stage 1.                                                                *)
(***************************************************************************)

\* C1: generate_opinion is called at most once per member per run; the
\* opinions gathered so far are, in declaration order, the texts the members'
\* calls returned; and once the Stage 1 loop has ended there are exactly N
\* of them, the i-th stored in the result under the name of the i-th member.
C1_Stage1Opinions ==
    \A r \in Runs :
        LET s == run[r]
        IN  /\ \A m \in Members : s.generate[m].calls <= 1
            /\ Len(s.responses) <= N
            /\ \A j \in 1..Len(s.responses) :
                  /\ s.generate[j].state = "returned"
                  /\ s.responses[j] = s.generate[j].value
            /\ PastStage1(s) =>
                  /\ Len(s.responses) = N
                  /\ Len(s.result.stage1_responses) = N
                  /\ \A m \in Members :
                        /\ s.generate[m].calls = 1
                        /\ s.result.stage1_responses[m].model = COUNCIL_MODELS[m]
                        /\ s.result.stage1_responses[m].response = s.generate[m].value

\* Stage 1 has ended with three opinions that are not all the same text
C1_Witness ==
    \E r \in Runs :
        /\ PastStage1(run[r])
        /\ Len(run[r].result.stage1_responses) = N
        /\ run[r].responses[1] # run[r].responses[2]
        /\ run[r].responses[2] = run[r].responses[3]

\* C2: at most one generate_opinion call of a run is outstanding, and a
\* member's call has been issued only if the call of the member before it
\* has returned.
C2_Stage1Sequential ==
    \A r \in Runs :
        LET s == run[r]
        IN  /\ Cardinality({m \in Members : s.generate[m].state = "outstanding"}) <= 1
            /\ \A m \in Members :
                  (m > 1 /\ s.generate[m].calls > 0) =>
                      s.generate[m - 1].state = "returned"

\* the last member's call is outstanding after the others returned
C2_Witness ==
    \E r \in Runs :
        /\ run[r].generate[N].state = "outstanding"
        /\ \A m \in 1..(N - 1) : run[r].generate[m].state = "returned"

\* after a failed generate_opinion call the run issues no further backend
\* call and returns no result
GenerateFailureStopsCalls ==
    \A r \in Runs :
        LET s == run[r]
        IN  \A k \in Members :
                s.generate[k].state = "raised" =>
                    /\ s.pc \in {"cb_error", "error"}
                    /\ \A m \in Members : m > k => s.generate[m].calls = 0
                    /\ \A m \in Members : s.review_tasks[m].state = "none"
                    /\ s.chairman.calls = 0
                    /\ s.outcome # "returned"
                    /\ s.result.stage1_responses = <<>>

\* C3: when the generate_opinion call of member k fails, no call is issued
\* for a later member, no review call and no chairman call is issued, no
\* result is returned, and process_query fails with the failure of that call.
C3_GenerateFailureAborts ==
    /\ GenerateFailureStopsCalls
    /\ \A r \in Runs :
          \A k \in Members :
              (run[r].generate[k].state = "raised" /\ run[r].outcome = "raised") =>
                  run[r].raised = run[r].generate[k].exc

(***************************************************************************)
(* Anonymization.                                                          *)
(***************************************************************************)

\* pairs is a relabelling of responses by the identifiers 1..N: N pairs, the
\* identifiers are exactly 1..N and each response occurs as often among the
\* pairs as among the responses
IsRelabelling(ids, resps, responses) ==
    /\ Len(ids) = N
    /\ Len(resps) = N
    /\ Len(responses) = N
    /\ \A k \in 1..N : Count(ids, Str(k)) = 1
    /\ \A j \in 1..N : Count(resps, resps[j]) = Count(responses, resps[j])
    /\ \A j \in 1..N : Count(resps, responses[j]) = Count(responses, responses[j])

\* C4: the anonymized set, as the run holds it, as every review task
\* receives it and as every review prompt spells it out, is a relabelling of
\* the Stage 1 opinions by the identifiers 1..N.
C4_AnonymizedBijection ==
    \A r \in Runs :
        LET s == run[r]
            anon == s.anonymous_responses
        IN  /\ s.review_tasks[1].state # "none" =>
                  IsRelabelling([j \in 1..Len(anon) |-> Str(anon[j][1])],
                                [j \in 1..Len(anon) |-> anon[j][2]],
                                s.responses)
            /\ \A m \in Members :
                  s.review_tasks[m].calls > 0 =>
                      LET prompt == s.review_tasks[m].prompt
                      IN  /\ prompt.count = N
                          /\ IsRelabelling(
                                prompt.ids_list,
                                [j \in 1..Len(prompt.responses_text) |->
                                    prompt.responses_text[j].resp],
                                s.responses)
                          /\ \A j \in 1..N :
                                prompt.responses_text[j].id = prompt.ids_list[j]

\* a review call is outstanding on a set that was reordered by the draw
\* and holds the same text twice
C4_Witness ==
    \E r \in Runs :
        /\ run[r].review_tasks[N].state = "outstanding"
        /\ run[r].review_tasks[N].prompt.ids_list = <<"3", "1", "2">>
        /\ run[r].responses[1] = run[r].responses[3]
        /\ run[r].responses[1] # run[r].responses[2]

\* the identifier under which member i's response is shown to the reviewing members
\* when the draw is p: the identifier of the pair the shuffle took from
\* position i
AnonymousIdOf(responses, p, i) ==
    LET j == CHOOSE j \in 1..Len(responses) : p[j] = i
    IN  Anonymize(responses, p)[j][1]

\* C5: for every member i and every identifier k some draw shows member i's
\* response to the reviewing members under the identifier k.
C5_IdentifierHidesPosition ==
    \A r \in Runs :
        PastStage1(run[r]) =>
            \A i \in Members : \A k \in 1..N :
                \E p \in ShuffleDraws(N) :
                    AnonymousIdOf(run[r].responses, p, i) = k

\* what the code does instead: under every draw the identifier of member
\* i's response is i
IdentifierIsPosition ==
    \A r \in Runs :
        PastStage1(run[r]) =>
            \A i \in Members : \A p \in ShuffleDraws(N) :
                AnonymousIdOf(run[r].responses, p, i) = i

(***************************************************************************)
(* Stage 2.                                                                *)
(***************************************************************************)

\* C6: once the join of Stage 2 has succeeded the run holds exactly N
\* reviews, the m-th by member m; once a review call has failed the run holds
\* no review at all, the chairman is never called, no result is returned and
\* the error process_query raises is the first one a review call raised.
C6_Stage2AllOrNothing ==
    \A r \in Runs :
        LET s == run[r]
            failed == {m \in Members : s.review_tasks[m].state = "raised"}
        IN  /\ PastStage2(s) =>
                  /\ failed = {}
                  /\ Len(s.result.stage2_reviews) = N
                  /\ \A m \in Members :
                        s.result.stage2_reviews[m].model = COUNCIL_MODELS[m]
            /\ failed # {} =>
                  /\ s.pc \in {"gather", "error"}
                  /\ s.reviews = <<>>
                  /\ s.result.stage2_reviews = <<>>
                  /\ s.chairman.calls = 0
                  /\ s.outcome # "returned"
                  /\ s.gather_exception \in {s.review_tasks[m].exc : m \in failed}
                  /\ s.pc = "error" =>
                        /\ s.outcome = "raised"
                        /\ s.raised = s.gather_exception

\* the run has failed on one review call while the other two had returned
C6_Witness ==
    \E r \in Runs :
        /\ run[r].pc = "error"
        /\ run[r].review_tasks[2].state = "raised"
        /\ run[r].review_tasks[1].state = "returned"
        /\ run[r].review_tasks[3].state = "returned"
        /\ run[r].result.stage2_reviews = <<>>

\* C7: a review task exists only when all N opinions exist; every review
\* task receives the anonymized set of the run, so all receive the same
\* pairs in the same order, and every prompt spells out the same list; the
\* chairman is called only after all N review calls have returned.
C7_FanOutJoin ==
    \A r \in Runs :
        LET s == run[r]
        IN  /\ \A m \in Members :
                  s.review_tasks[m].state # "none" =>
                      /\ Len(s.responses) = N
                      /\ \A k \in Members : s.generate[k].state = "returned"
                      /\ s.review_tasks[m].responses = s.anonymous_responses
                      /\ Len(s.anonymous_responses) = N
            /\ \A m, k \in Members :
                  (s.review_tasks[m].calls > 0 /\ s.review_tasks[k].calls > 0) =>
                      /\ s.review_tasks[m].prompt = s.review_tasks[k].prompt
                      /\ s.review_tasks[m].calls = 1
                      /\ Len(s.review_tasks[m].prompt.responses_text) = N
            /\ s.chairman.calls > 0 =>
                  \A m \in Members : s.review_tasks[m].state = "returned"

\* all N review calls of the run are outstanding at the same time
C7_Witness ==
    \E r \in Runs :
        \A m \in Members : run[r].review_tasks[m].state = "outstanding"

(***************************************************************************)
(* Stage 3 and the result.                                                 *)
(***************************************************************************)

\* C8: the chairman is called at most once in a run and exactly once in a
\* run that is in Stage 3 or has returned; what it is called with, and the
\* prompt built from it, are the N opinions and the N reviews in declaration
\* order, each under the name of the member that produced it, and carry no
\* identifier list.
C8_SynthesisInput ==
    \A r \in Runs :
        LET s == run[r]
            c == s.chairman
        IN  /\ c.calls <= 1
            /\ Stage(s) \in {"STAGE3", "DONE"} => c.calls = 1
            /\ c.calls > 0 =>
                  /\ Len(c.council_responses) = N
                  /\ Len(c.reviews) = N
                  /\ Len(c.prompt.responses_text) = N
                  /\ Len(c.prompt.reviews_text) = N
                  /\ c.prompt.ids_list = <<>>
                  /\ c.prompt.user_query = s.user_query
                  /\ \A m \in Members :
                        /\ c.council_responses[m] =
                              [model |-> COUNCIL_MODELS[m],
                               response |-> s.generate[m].value]
                        /\ c.reviews[m] =
                              [model |-> COUNCIL_MODELS[m],
                               review |-> s.review_tasks[m].review]
                        /\ c.prompt.responses_text[m] = c.council_responses[m]
                        /\ c.prompt.reviews_text[m] = c.reviews[m]
            /\ s.outcome = "returned" =>
                  /\ s.returned.stage1_responses = c.council_responses
                  /\ s.returned.stage2_reviews = c.reviews

\* the chairman's call is outstanding in a run whose draw reordered the
\* anonymized set
C8_Witness ==
    \E r \in Runs :
        /\ Stage(run[r]) = "STAGE3"
        /\ run[r].chairman.calls = 1
        /\ run[r].anonymous_responses[1][1] = N

\* a step of a run's state machine: stay, move to the next stage, or fail
StageStep(a, b) ==
    \/ a = b
    \/ b # "ERROR" /\ StageRank(b) = StageRank(a) + 1
    \/ b = "ERROR" /\ a \notin {"DONE", "ERROR"}

\* a failed backend call takes the run to ERROR from the stage of the call
BackendFailureEnds(r) ==
    /\ GenerateRaise(r) =>
          /\ Stage(run[r]) = "STAGE1"
          /\ Stage(run'[r]) = "ERROR" \/ run'[r].pc = "cb_error"
    /\ (run[r].pc = "cb_error" /\ run'[r] # run[r]) => Stage(run'[r]) = "ERROR"
    /\ (GatherWake(r) /\ run[r].gather_exception # NoException) =>
          /\ Stage(run[r]) = "STAGE2"
          /\ Stage(run'[r]) = "ERROR"
    /\ ChairmanRaise(r) =>
          /\ Stage(run[r]) = "STAGE3"
          /\ Stage(run'[r]) = "ERROR"

\* in each stage the failure of the stage's backend call can happen
BackendFailurePossible(r) ==
    /\ run[r].pc = "generate" => ENABLED GenerateRaise(r)
    /\ \A m \in Members :
          run[r].review_tasks[m].state = "outstanding" => ENABLED ReviewRaise(r, m)
    /\ (/\ run[r].pc = "gather"
        /\ run[r].gather_exception # NoException
        /\ \A m \in Members : run[r].review_tasks[m].state # "created")
          => ENABLED GatherWake(r)
    /\ run[r].pc = "synthesize" => ENABLED ChairmanRaise(r)

\* DONE is the state of a run that returned, ERROR of one that raised
TerminalOutcome(r) ==
    /\ Stage(run[r]) = "DONE" <=> run[r].outcome = "returned"
    /\ Stage(run[r]) = "ERROR" <=> run[r].outcome = "raised"

\* C9: a run steps only from a stage to itself, to the next stage or, from a
\* stage that is not terminal, to ERROR; DONE and ERROR are never left, so
\* no run reaches both; and in each of STAGE1, STAGE2 and STAGE3 the failure
\* of the stage's backend call is possible and takes the run to ERROR.
C9_StageMachine ==
    /\ [][\A r \in Runs :
            /\ StageStep(Stage(run[r]), Stage(run'[r]))
            /\ BackendFailureEnds(r)]_vars
    /\ [](\A r \in Runs : BackendFailurePossible(r) /\ TerminalOutcome(r))

\* a run is in ERROR after the chairman's call failed in STAGE3
C9_Witness ==
    \E r \in Runs :
        /\ Stage(run[r]) = "ERROR"
        /\ run[r].chairman.state = "raised"
        /\ run[r].progress_callback

\* C10: a result is returned only when every opinion call, every review
\* call and the chairman's call returned; it carries the query of the call,
\* N opinions and N reviews that are the texts the members' backends
\* returned, and the text the chairman's backend returned.
C10_ReturnedResult ==
    \A r \in Runs :
        LET s == run[r]
        IN  s.outcome = "returned" =>
                /\ \A m \in Members :
                      /\ s.generate[m].state = "returned"
                      /\ s.review_tasks[m].state = "returned"
                /\ s.chairman.state = "returned"
                /\ s.returned.query = s.user_query
                /\ s.user_query \in Queries
                /\ Len(s.returned.stage1_responses) = N
                /\ Len(s.returned.stage2_reviews) = N
                /\ \A m \in Members :
                      /\ s.returned.stage1_responses[m].response = s.generate[m].value
                      /\ s.returned.stage2_reviews[m].review = s.review_tasks[m].review
                      /\ s.generate[m].value \in
                            GenerateReturns(COUNCIL_MODELS[m],
                                            OpinionPrompt(s.user_query), OpinionSystem)
                      /\ s.review_tasks[m].review \in
                            GenerateReturns(COUNCIL_MODELS[m],
                                            s.review_tasks[m].prompt, ReviewSystem)
                /\ s.returned.stage3_final = s.chairman.value
                /\ s.chairman.value \in
                      GenerateReturns(CHAIRMAN_MODEL, s.chairman.prompt, ChairmanSystem)

\* a result was returned whose texts are the models' own
C10_Witness ==
    \E r \in Runs :
        /\ run[r].outcome = "returned"
        /\ run[r].returned.stage3_final # EmptyText
        /\ \A m \in Members :
              /\ run[r].returned.stage1_responses[m].response # EmptyText
              /\ run[r].returned.stage2_reviews[m].review # EmptyText

(***************************************************************************)
(* The progress callback.                                                  *)
(***************************************************************************)

\* C11: a failure of the progress callback never makes process_query fail:
\* no run ends by raising the callback's failure, and a run in which only
\* the callback failed does not fail.
C11_CallbackFailureIsolated ==
    \A r \in Runs :
        LET s == run[r]
        IN  /\ ~(s.outcome = "raised" /\ s.raised = CallbackException)
            /\ s.outcome = "raised" =>
                  \/ \E m \in Members :
                        \/ s.generate[m].state = "raised"
                        \/ s.review_tasks[m].state = "raised"
                  \/ s.chairman.state = "raised"

\* C20: when the generate_opinion call of member k failed in a run with a
\* progress callback and process_query has failed, exactly one 'error' event
\* was emitted, it names member k and carries the failure of the call, and
\* the failure process_query raised is the failure of the call.
C20_ErrorEventThenFailure ==
    \A r \in Runs :
        LET s == run[r]
        IN  \A k \in Members :
                (/\ s.progress_callback
                 /\ s.generate[k].state = "raised"
                 /\ s.outcome = "raised") =>
                    /\ Count(s.events, ErrorEvent(k, s.generate[k].exc)) = 1
                    /\ \A j \in 1..Len(s.events) :
                          s.events[j].stage = "error" =>
                              s.events[j] = ErrorEvent(k, s.generate[k].exc)
                    /\ s.raised = s.generate[k].exc

\* the event announces the boundary of the stage
AnnouncesStage(ev, stage) ==
    /\ ev.stage = stage
    /\ ev.member = ""
    /\ ev.error = NoException

\* the event announces the call of member i as i/N
AnnouncesMember(ev, i) ==
    /\ ev.stage = "stage1"
    /\ ev.member = COUNCIL_MODELS[i]
    /\ ev.i = i
    /\ ev.total = N
    /\ ev.error = NoException

\* the j-th event of a run in which no call fails announces what the
\* pipeline does next: Stage 1, members 1..N, Stage 2, Stage 3
InPipelineOrder(ev, j) ==
    CASE j = 1        -> AnnouncesStage(ev, "stage1")
      [] j \in 2..N+1 -> AnnouncesMember(ev, j - 1)
      [] j = N + 2    -> AnnouncesStage(ev, "stage2")
      [] j = N + 3    -> AnnouncesStage(ev, "stage3")
      [] OTHER        -> FALSE

\* every call of the run was announced: the events emitted so far are in
\* pipeline order (an 'error' event can only be the last), a generate call
\* was issued only after the 'stage1' event and the event of its member, a
\* review task exists only after the 'stage2' event, the chairman is called
\* only after the 'stage3' event
CallsAnnounced(s) ==
    /\ \A j \in 1..Len(s.events) :
          \/ InPipelineOrder(s.events[j], j)
          \/ j = Len(s.events) /\ j >= 2 /\ s.events[j].stage = "error"
    /\ \A m \in Members :
          s.generate[m].calls > 0 =>
              /\ Len(s.events) >= m + 1
              /\ AnnouncesStage(s.events[1], "stage1")
              /\ AnnouncesMember(s.events[m + 1], m)
    /\ (\E m \in Members : s.review_tasks[m].state # "none") =>
          /\ Len(s.events) >= N + 2
          /\ AnnouncesStage(s.events[N + 2], "stage2")
    /\ s.chairman.calls > 0 =>
          /\ Len(s.events) >= N + 3
          /\ AnnouncesStage(s.events[N + 3], "stage3")

\* the step of run r that emits the event ev leaves the run where the event
\* says it is: at 'stage1' no generate call has been issued; at the event of
\* member i the calls of members 1..i-1 have returned, i-1 opinions exist and
\* member i's call has not been issued; at 'stage2' N opinions exist and no
\* review task does; at 'stage3' N reviews exist and the chairman has not
\* been called
EmittedInTime(s, ev) ==
    /\ (ev.stage = "stage1" /\ ev.member = "") =>
          \A m \in Members : s.generate[m].calls = 0
    /\ (ev.stage = "stage1" /\ ev.member # "") =>
          \E i \in Members :
              /\ AnnouncesMember(ev, i)
              /\ \A m \in Members : m < i => s.generate[m].state = "returned"
              /\ Len(s.responses) = i - 1
              /\ \A m \in Members : m >= i => s.generate[m].calls = 0
    /\ ev.stage = "stage2" =>
          /\ Len(s.responses) = N
          /\ \A m \in Members : s.generate[m].state = "returned"
          /\ \A m \in Members : s.review_tasks[m].state = "none"
    /\ ev.stage = "stage3" =>
          /\ Len(s.reviews) = N
          /\ \A m \in Members : s.review_tasks[m].state = "returned"
          /\ s.chairman.calls = 0

\* C17: in a run with a progress callback the events are ordered with the
\* calls they announce: 'stage1' before every generate call; the event of
\* member i, naming the member and i/N, after member i-1's call returned and
\* before member i's call is issued; 'stage2' after the N opinions exist and
\* before any review call; 'stage3' after the N reviews exist and before the
\* chairman's call.
C17_ProgressOrdered ==
    /\ [](\A r \in Runs : run[r].progress_callback => CallsAnnounced(run[r]))
    /\ [][\A r \in Runs :
            (run[r].progress_callback /\ run'[r].events # run[r].events) =>
                /\ Len(run'[r].events) = Len(run[r].events) + 1
                /\ EmittedInTime(run'[r], run'[r].events[Len(run'[r].events)])]_vars

\* a run with a progress callback returned: all six events were emitted
C17_Witness ==
    \E r \in Runs :
        /\ run[r].progress_callback
        /\ run[r].outcome = "returned"
        /\ Len(run[r].events) = N + 3

(***************************************************************************)
(* The review set.                                                         *)
(***************************************************************************)

\* C18: the review set of a run past the join of Stage 2, and the one a
\* successful run returns, lists one review per member in declaration order:
\* the i-th review is tagged with the name of the i-th member and is the text
\* that member's review call returned, in whatever order the calls finished.
C18_ReviewsInDeclarationOrder ==
    \A r \in Runs :
        LET s == run[r]
        IN  /\ PastStage2(s) =>
                  /\ Len(s.reviews) = N
                  /\ \A i \in Members :
                        /\ s.reviews[i].model = COUNCIL_MODELS[i]
                        /\ s.reviews[i].review = s.review_tasks[i].review
            /\ s.outcome = "returned" =>
                  /\ Len(s.returned.stage2_reviews) = N
                  /\ \A i \in Members :
                        /\ s.returned.stage2_reviews[i].model = COUNCIL_MODELS[i]
                        /\ s.returned.stage2_reviews[i].review = s.review_tasks[i].review

\* a run returned whose review calls finished from the last member to the
\* first, with reviews that differ from member to member
C18_Witness ==
    \E r \in Runs :
        /\ run[r].outcome = "returned"
        /\ run[r].finished = [k \in 1..N |-> <<N + 1 - k, "returned">>]
        /\ \A i, j \in Members :
              i # j => run[r].review_tasks[i].review # run[r].review_tasks[j].review

(***************************************************************************)
(* Termination.                                                            *)
(***************************************************************************)

\* C16: when every awaited call ends, every run of process_query ends in
\* DONE or ERROR, and the caller receives exactly one outcome: a run has an
\* outcome exactly when it has ended, DONE carries a result and no failure,
\* ERROR a failure and no result, and an outcome never changes.
C16_RunTerminatesOnce ==
    /\ \A r \in Runs :
          (run[r].pc # "idle") ~> (Stage(run[r]) \in {"DONE", "ERROR"})
    /\ [](\A r \in Runs :
            LET s == run[r]
            IN  /\ s.outcome # "none" <=> Stage(s) \in {"DONE", "ERROR"}
                /\ Stage(s) = "DONE" =>
                      /\ s.outcome = "returned"
                      /\ s.returned # NoResult
                      /\ s.raised = NoException
                /\ Stage(s) = "ERROR" =>
                      /\ s.outcome = "raised"
                      /\ s.raised # NoException
                      /\ s.returned = NoResult)
    /\ [][\A r \in Runs :
            run[r].outcome # "none" =>
                /\ run'[r].outcome = run[r].outcome
                /\ run'[r].returned = run[r].returned
                /\ run'[r].raised = run[r].raised
                /\ run'[r].pc = run[r].pc]_vars

\* a run ended in ERROR on the failure of a review call while another review
\* call was still outstanding
C16_Witness ==
    \E r \in Runs :
        /\ Stage(run[r]) = "ERROR"
        /\ run[r].outcome = "raised"
        /\ \E m \in Members : run[r].review_tasks[m].state = "raised"
        /\ \E m \in Members : run[r].review_tasks[m].state = "outstanding"

(***************************************************************************)
(* health_check.                                                           *)
(***************************************************************************)

\* C14: a call of health_check ends by returning a mapping with exactly N+1
\* entries, one per council member and one for the chairman, after one probe
\* of each.
C14_HealthMapping ==
    health.pc \in {"done", "error"} =>
        /\ health.outcome = "returned"
        /\ health.probes = N + 1
        /\ Len(health.checks) = N + 1
        /\ Len(HealthKeys) = N + 1
        /\ \A i, j \in 1..N+1 : i # j => HealthKeys[i] # HealthKeys[j]

(***************************************************************************)
(* Two runs on the shared council.                                         *)
(***************************************************************************)

\* the opinion is a model's text for the query q
OpinionFor(t, q) == t.prompt.user_query = q /\ t.system = OpinionSystem

\* the review is a model's text for a review prompt on the query q that
\* shows opinions for q only
ReviewFor(t, q) ==
    /\ t.prompt.user_query = q
    /\ t.system = ReviewSystem
    /\ \A j \in DOMAIN t.prompt.responses_text :
          OpinionFor(t.prompt.responses_text[j].resp, q)

\* the answer is the chairman's text for a synthesis prompt on the query q
\* that shows opinions and reviews for q only
FinalFor(t, q) ==
    /\ t.prompt.user_query = q
    /\ t.system = ChairmanSystem
    /\ \A j \in DOMAIN t.prompt.responses_text :
          OpinionFor(t.prompt.responses_text[j].response, q)
    /\ \A j \in DOMAIN t.prompt.reviews_text :
          ReviewFor(t.prompt.reviews_text[j].review, q)

\* C12: when two runs execute at once on the shared council, the opinion
\* set, the anonymized set, the review set and the result of each run hold
\* only texts produced for the query of that run.
C12_RunsDoNotInterfere ==
    \A r \in TwoRuns :
        LET s == run[r]
            q == s.user_query
        IN  /\ \A j \in DOMAIN s.responses : OpinionFor(s.responses[j], q)
            /\ \A j \in DOMAIN s.anonymous_responses :
                  OpinionFor(s.anonymous_responses[j][2], q)
            /\ \A j \in DOMAIN s.reviews : ReviewFor(s.reviews[j].review, q)
            /\ \A j \in DOMAIN s.result.stage1_responses :
                  OpinionFor(s.result.stage1_responses[j].response, q)
            /\ \A j \in DOMAIN s.result.stage2_reviews :
                  ReviewFor(s.result.stage2_reviews[j].review, q)
            /\ s.outcome = "returned" =>
                  /\ s.returned.query = q
                  /\ Len(s.returned.stage1_responses) = N
                  /\ Len(s.returned.stage2_reviews) = N
                  /\ \A j \in Members :
                        /\ OpinionFor(s.returned.stage1_responses[j].response, q)
                        /\ ReviewFor(s.returned.stage2_reviews[j].review, q)
                  /\ FinalFor(s.returned.stage3_final, q)

\* both runs returned, on different queries, and they overlapped: the second
\* run, which began after the first, had every review call answered before
\* the first run's call to the same member was
C12_Witness ==
    /\ run[1].outcome = "returned"
    /\ run[2].outcome = "returned"
    /\ run[1].user_query # run[2].user_query
    /\ \A m \in Members :
          /\ Len(members[m].rankings) = 2
          /\ ReviewFor(members[m].rankings[1], run[2].user_query)
          /\ ReviewFor(members[m].rankings[2], run[1].user_query)

\* a review call of the run has failed
ReviewFailed(s) == \E j \in DOMAIN s.finished : s.finished[j][2] = "raised"

\* the failure of the review call of the run that failed first
FirstReviewFailure(s) ==
    LET j == CHOOSE j \in DOMAIN s.finished :
                /\ s.finished[j][2] = "raised"
                /\ \A k \in 1..j-1 : s.finished[k][2] # "raised"
    IN  s.review_tasks[s.finished[j][1]].exc

\* once a review call of the run has failed the join is over, whatever
\* calls are outstanding: the run is at the join and can resume, or it has
\* failed with the failure of the call that failed first; it holds no review
\* set, has not called the chairman and has returned nothing
FailsOnFirstFailure(s) ==
    ReviewFailed(s) =>
        /\ s.pc \in {"gather", "error"}
        /\ s.pc = "gather" => GatherDone(s)
        /\ s.pc = "error" =>
              /\ s.outcome = "raised"
              /\ s.raised = FirstReviewFailure(s)
        /\ s.reviews = <<>>
        /\ s.chairman.calls = 0
        /\ s.outcome # "returned"

\* in this step the review call of member m of run r finishes after another
\* review call of the run has failed
LateCompletion(r, m) ==
    /\ ReviewFailed(run[r])
    /\ run[r].review_tasks[m].state = "outstanding"
    /\ run'[r].review_tasks[m].state \in {"returned", "raised"}

\* the step changes nothing of run r that the run or its caller can see
RunUntouched(r) ==
    /\ run'[r].pc = run[r].pc
    /\ run'[r].outcome = run[r].outcome
    /\ run'[r].raised = run[r].raised
    /\ run'[r].returned = run[r].returned
    /\ run'[r].result = run[r].result
    /\ run'[r].responses = run[r].responses
    /\ run'[r].anonymous_responses = run[r].anonymous_responses
    /\ run'[r].reviews = run[r].reviews
    /\ run'[r].gather_exception = run[r].gather_exception
    /\ run'[r].chairman = run[r].chairman
    /\ run'[r].generate = run[r].generate

\* C13: when a review call of a run fails while others are outstanding, the
\* run fails on the first failure, and a later completion of an outstanding
\* call changes nothing but the rankings of its own member, which grow by
\* the review when the call returns: the failed run is untouched, its
\* chairman is not called, every other run is left as it was.
C13_LateCompletionHarmless ==
    /\ [](\A r \in TwoRuns : FailsOnFirstFailure(run[r]))
    /\ [][\A r \in TwoRuns : \A m \in Members :
            LateCompletion(r, m) =>
                /\ RunUntouched(r)
                /\ \A o \in TwoRuns : o # r => run'[o] = run[o]
                /\ \A k \in Members :
                      /\ members'[k].response = members[k].response
                      /\ k # m => members'[k].rankings = members[k].rankings
                /\ \/ members'[m].rankings = members[m].rankings
                   \/ /\ run'[r].review_tasks[m].state = "returned"
                      /\ members'[m].rankings =
                            Append(members[m].rankings,
                                   run'[r].review_tasks[m].review)]_vars

\* the first run failed on a review call; one of its outstanding calls
\* returned while the second run was waiting at its own join, and the second
\* run then returned its result
C13_Witness ==
    /\ run[1].outcome = "raised"
    /\ \E m, k \in Members :
          /\ run[1].finished = <<<<m, "raised">>, <<k, "returned">>>>
          /\ Len(members[k].rankings) = 2
          /\ members[k].rankings[2] = run[1].review_tasks[k].review
    /\ run[2].outcome = "returned"

(***************************************************************************)
(* Two runs, one after the other.                                          *)
(***************************************************************************)

\* the member whose opinion the anonymized set of the run shows under the
\* identifier id
MemberOfId(s, id) ==
    CHOOSE m \in Members :
        \E j \in DOMAIN s.anonymous_responses :
            /\ s.anonymous_responses[j][1] = id
            /\ s.responses[m] = s.anonymous_responses[j][2]

\* both runs returned a result for the same query
BothReturned ==
    /\ run[1].outcome = "returned"
    /\ run[2].outcome = "returned"
    /\ run[1].user_query = run[2].user_query

\* the two runs hold the same opinions and the same review texts
SameContents ==
    /\ run[1].returned.stage1_responses = run[2].returned.stage1_responses
    /\ \A m \in Members :
          run[1].returned.stage2_reviews[m] = run[2].returned.stage2_reviews[m]

\* C15: two runs on the same query with backends whose output is fixed per
\* member hold the same opinions and reviews, and the identifier-to-member
\* mapping is drawn afresh: when the shuffle of the second run falls
\* otherwise than that of the first, the second run's mapping from
\* identifiers to members is another one.
C15_SameContentsFreshMapping ==
    BothReturned =>
        /\ SameContents
        /\ run[1].anonymous_responses # run[2].anonymous_responses =>
              \E id \in 1..N : MemberOfId(run[1], id) # MemberOfId(run[2], id)

\* the part of C15 that holds: same contents in both runs
C15_Contents == BothReturned => SameContents

\* run r returns its result in this step
Returns(r) == run[r].outcome = "none" /\ run'[r].outcome = "returned"

\* the run issued one generate call and one review call per member
OneCallEach(s) ==
    \A m \in Members :
        /\ s.generate[m].calls = 1
        /\ s.generate[m].state = "returned"
        /\ s.review_tasks[m].calls = 1
        /\ s.review_tasks[m].state = "returned"

\* every member's cached response is its opinion of the run s and its
\* rankings are one longer than when the run began
CacheHoldsRun(s, cache) ==
    \A m \in Members :
        /\ cache[m].response = s.responses[m]
        /\ cache[m].response = s.generate[m].value
        /\ Len(cache[m].rankings) = Len(s.cache_at_start[m].rankings) + 1

\* nothing but the run itself called a member between the beginning of the
\* run and now: requests do not overlap and no review call of an earlier run
\* was outstanding when the run began
RanAlone(s) == ~env.overlap /\ s.quiet_start

\* C19 as stated: whatever the members hold from earlier runs, a run that
\* returns has issued one generate call and one review call per member, and
\* when it returns every member's cached response is its opinion of the run
\* and its rankings have grown by exactly one entry.
C19_CacheAfterRun ==
    [][\A r \in TwoRuns :
          Returns(r) => /\ OneCallEach(run'[r])
                        /\ CacheHoldsRun(run'[r], members')]_vars

\* C19, amended: whatever the members hold from earlier runs, a run never
\* issues more than one generate call and one review call per member and a
\* run that returns has issued exactly one of each; when a run that ran
\* alone returns, every member's cached response is its opinion of the run
\* and its rankings are those it held when the run began followed by its
\* review of the run.
C19_CacheAfterRunAlone ==
    /\ [](\A r \in TwoRuns : \A m \in Members :
            /\ run[r].generate[m].calls <= 1
            /\ run[r].review_tasks[m].calls <= 1)
    /\ [][\A r \in TwoRuns :
            Returns(r) =>
                /\ OneCallEach(run'[r])
                /\ RanAlone(run'[r]) =>
                      /\ CacheHoldsRun(run'[r], members')
                      /\ \A m \in Members :
                            members'[m].rankings =
                                Append(run'[r].cache_at_start[m].rankings,
                                       run'[r].review_tasks[m].review)]_vars

\* the second run began with every member holding the response and the
\* review of the first run, on another query, ran alone and returned
C19_Witness ==
    /\ run[1].outcome = "returned"
    /\ run[2].outcome = "returned"
    /\ run[2].user_query # run[1].user_query
    /\ RanAlone(run[2])
    /\ \A m \in Members :
          /\ run[2].cache_at_start[m].response = run[1].responses[m]
          /\ run[2].cache_at_start[m].rankings = <<run[1].review_tasks[m].review>>
          /\ members[m].response = run[2].responses[m]

====
